---- MODULE Spec2Model ----
(***************************************************************************)
(* MLCodeReviewer (server/src/ml_analyzer/analyzer.py): the rule engine    *)
(* that reviews one source text against a rule registry.                   *)
(*                                                                         *)
(* A source text is a sequence of characters over a small alphabet; a      *)
(* regular expression is a sequence of atoms matched by backtracking the   *)
(* way re.search does; ast.parse is the Python grammar restricted to that  *)
(* alphabet.  Each invocation of analyze_code is a process with its own    *)
(* locals (code, syntax_issues, lines, issues) and a program counter.      *)
(***************************************************************************)
EXTENDS Integers, Sequences, FiniteSets, TLC

\* Longest source text drawn as input of the sequential specification.
MaxLen == 4

\* Number of concurrent callers sharing one reviewer.
NumWorkers == 2

Workers == 1..NumWorkers

VARIABLES
    rules,          \* self.rules: the registry, an ordered mapping category -> details
    pc,             \* per invocation: position inside analyze_code
    code,           \* per invocation: the argument `code`
    syntax_issues,  \* per invocation: local `syntax_issues`
    lines,          \* per invocation: local `lines`
    issues,         \* per invocation: local `issues`
    result,         \* per invocation: the value returned
    returned        \* history: the (code, result) pairs returned so far

vars == <<rules, pc, code, syntax_issues, lines, issues, result, returned>>

-----------------------------------------------------------------------------
(* Characters and texts *)

NL == "\n"
SP == " "

Alphabet == {"K", "k", "x", "S", SP, NL}

\* [A-Za-z0-9_] restricted to the alphabet: what \b and identifiers are made of.
IsWordChar(c) == c \in {"K", "k", "x", "S"}

\* str.lower() on one character: how re.IGNORECASE compares letters.
Lower(c) == IF c = "K" THEN "k" ELSE IF c = "S" THEN "s" ELSE c

Texts(n) == UNION {[1..m -> Alphabet] : m \in 0..n}

Codes == Texts(MaxLen)

\* `needle in text` on Python strings.
Contains(text, needle) ==
    \E p \in 1..(Len(text) - Len(needle) + 1) :
        SubSeq(text, p, p + Len(needle) - 1) = needle

FirstNewline(text) ==
    IF \E p \in 1..Len(text) : text[p] = NL
    THEN CHOOSE p \in 1..Len(text) :
             text[p] = NL /\ \A q \in 1..(p - 1) : text[q] # NL
    ELSE 0

\* str.splitlines(): no trailing empty line after a final line break.
RECURSIVE SplitLines(_)
SplitLines(text) ==
    IF text = <<>> THEN <<>>
    ELSE LET n == FirstNewline(text)
         IN  IF n = 0 THEN <<text>>
             ELSE <<SubSeq(text, 1, n - 1)>> \o SplitLines(SubSeq(text, n + 1, Len(text)))

-----------------------------------------------------------------------------
(* Regular expressions: re.search *)

Lit(c) == [t |-> "lit", c |-> c]     \* a literal character
Star(c) == [t |-> "star", c |-> c]   \* c*
Ws == [t |-> "ws", c |-> ""]         \* \s
Wb == [t |-> "wb", c |-> ""]         \* \b

\* A plain identifier used as a pattern: each character is a literal.
Literal(text) == [i \in 1..Len(text) |-> Lit(text[i])]

CharMatches(c, d, ignorecase) ==
    IF ignorecase THEN Lower(c) = Lower(d) ELSE c = d

\* \b before position p: exactly one side is a word character.
AtWordBoundary(text, p) ==
    LET before == p > 1 /\ IsWordChar(text[p - 1])
        after  == p <= Len(text) /\ IsWordChar(text[p])
    IN  before # after

\* Whether pattern[i..] matches text starting at position p.
RECURSIVE MatchAt(_, _, _, _, _)
MatchAt(pattern, i, text, p, ignorecase) ==
    IF i > Len(pattern) THEN TRUE
    ELSE LET a == pattern[i]
         IN  CASE a.t = "lit" ->
                    /\ p <= Len(text)
                    /\ CharMatches(a.c, text[p], ignorecase)
                    /\ MatchAt(pattern, i + 1, text, p + 1, ignorecase)
               [] a.t = "ws" ->
                    /\ p <= Len(text)
                    /\ text[p] \in {SP, NL}
                    /\ MatchAt(pattern, i + 1, text, p + 1, ignorecase)
               [] a.t = "wb" ->
                    /\ AtWordBoundary(text, p)
                    /\ MatchAt(pattern, i + 1, text, p, ignorecase)
               [] a.t = "star" ->
                    \/ MatchAt(pattern, i + 1, text, p, ignorecase)
                    \/ /\ p <= Len(text)
                       /\ CharMatches(a.c, text[p], ignorecase)
                       /\ MatchAt(pattern, i, text, p + 1, ignorecase)

\* re.search(pattern, text, flags) is not None
Search(pattern, text, ignorecase) ==
    \E p \in 1..(Len(text) + 1) : MatchAt(pattern, 1, text, p, ignorecase)

-----------------------------------------------------------------------------
(* ast.parse on the alphabet: every line is blank or one identifier at     *)
(* column 0, trailing blanks allowed.                                      *)

RECURSIVE RStrip(_)
RStrip(line) ==
    IF line # <<>> /\ line[Len(line)] = SP
    THEN RStrip(SubSeq(line, 1, Len(line) - 1))
    ELSE line

\* "" when the line is accepted, else the SyntaxError message.
LineError(line) ==
    LET s == RStrip(line)
    IN  IF s = <<>> THEN ""
        ELSE IF s[1] = SP THEN "unexpected indent"
        ELSE IF \E p \in 1..Len(s) : s[p] = SP THEN "invalid syntax"
        ELSE ""

\* The SyntaxError ast.parse raises: [lineno, msg]; lineno 0 when it parses.
ParseError(text) ==
    LET ls  == SplitLines(text)
        bad == {n \in 1..Len(ls) : LineError(ls[n]) # ""}
    IN  IF bad = {} THEN [lineno |-> 0, msg |-> ""]
        ELSE LET n == CHOOSE n \in bad : \A m \in bad : n <= m
             IN  [lineno |-> n, msg |-> LineError(ls[n])]

Parses(text) == ParseError(text).lineno = 0

-----------------------------------------------------------------------------
(* The registry: get_comprehensive_rules()                                 *)

Issue(line, message, severity, category) ==
    [line |-> line, issue |-> message, severity |-> severity, category |-> category]

ScalingMessage(full_name) ==
    full_name \o " is sensitive to feature scaling. Consider using a scaler."

PatK == <<Lit("k")>>                    \* k
PatX == <<Lit("x")>>                    \* x
PatSpan == <<Lit("K"), Ws, Lit("x")>>   \* K\sx
PatNullable == <<Star("x")>>            \* x*

Algorithms == << <<(<<"K">>), "KNN">>, <<(<<"x">>), "SVM">> >>

Scalers == << <<"S">>, <<"x", "S">> >>

ScalingRule ==
    [severity |-> "warning", scale_sensitive_algorithms |-> Algorithms, scalers |-> Scalers]

RegFull ==
    << <<"data_leakage", [severity |-> "critical",
                          patterns |-> << <<PatSpan, "spans lines">>, <<PatK, "uses k">> >>]>>,
       <<"style", [patterns |-> << <<PatK, "uses k">>, <<PatX, "uses x">> >>]>>,
       <<"feature_scaling", ScalingRule>> >>

RegNoScaling ==
    << <<"style", [patterns |-> << <<PatNullable, "maybe x">>, <<PatX, "uses x">> >>]>>,
       <<"data_leakage", [severity |-> "critical", patterns |-> << <<PatK, "uses x">> >>]>> >>

RegScalingFirst ==
    << <<"feature_scaling",
         [severity |-> "warning",
          patterns |-> << <<Literal(<<"K">>), ScalingMessage("KNN")>> >>,
          scale_sensitive_algorithms |-> Algorithms,
          scalers |-> Scalers]>>,
       <<"data_leakage", [severity |-> "critical", patterns |-> << <<PatSpan, "spans lines">> >>]>> >>

RegBareScaling ==
    << <<"feature_scaling", [severity |-> "warning"]>>,
       <<"style", [severity |-> "info", patterns |-> << <<PatX, "uses x">> >>]>> >>

RegNoScalers ==
    << <<"feature_scaling", [scale_sensitive_algorithms |-> Algorithms]>> >>

RegEmpty == << >>

Registries == {RegFull, RegNoScaling, RegScalingFirst, RegBareScaling, RegNoScalers, RegEmpty}

\* `key in d` and d[key] on the ordered mapping.
HasCategory(r, category) == \E i \in 1..Len(r) : r[i][1] = category

Details(r, category) == r[CHOOSE i \in 1..Len(r) : r[i][1] = category][2]

\* details.get(key, default)
Get(details, key, default) == IF key \in DOMAIN details THEN details[key] ELSE default

-----------------------------------------------------------------------------
(* MLCodeReviewer *)

\* Variant: enumerate(lines) without start=1, a 0-based line number.
FindLineZeroBased(ls, pattern) ==
    IF \E i \in 1..Len(ls) : Search(pattern, ls[i], TRUE)
    THEN (CHOOSE i \in 1..Len(ls) :
              /\ Search(pattern, ls[i], TRUE)
              /\ \A j \in 1..(i - 1) : ~Search(pattern, ls[j], TRUE)) - 1
    ELSE 1

\* _find_line_for_pattern
FindLineForPattern(ls, pattern) ==
    IF \E i \in 1..Len(ls) : Search(pattern, ls[i], TRUE)
    THEN CHOOSE i \in 1..Len(ls) :
             /\ Search(pattern, ls[i], TRUE)
             /\ \A j \in 1..(i - 1) : ~Search(pattern, ls[j], TRUE)
    ELSE 1

\* Variant: the identifier searched without the \b anchors.
WholeWordUnanchored(algorithm) == Literal(algorithm)

\* r'\b' + algorithm + r'\b'
WholeWord(algorithm) == <<Wb>> \o Literal(algorithm) \o <<Wb>>

\* Variant: an empty text reported as a syntax error.
AstAnalysisRejectsEmpty(text) ==
    LET e == ParseError(text)
    IN  IF text = <<>>
        THEN << Issue(1, "Fatal Syntax Error: empty input", "error", "syntax") >>
        ELSE IF e.lineno = 0 THEN <<>>
        ELSE << Issue(e.lineno, "Fatal Syntax Error: " \o e.msg, "error", "syntax") >>

\* _ast_analysis
AstAnalysis(text) ==
    LET e == ParseError(text)
    IN  IF e.lineno = 0 THEN <<>>
        ELSE << Issue(e.lineno, "Fatal Syntax Error: " \o e.msg, "error", "syntax") >>

\* the inner loop of analyze_code over one category's patterns
RECURSIVE PatternLoop(_, _, _, _, _, _)
PatternLoop(pairs, k, text, ls, severity, category) ==
    IF k > Len(pairs) THEN <<>>
    ELSE (IF Search(pairs[k][1], text, TRUE)
          THEN << Issue(FindLineForPattern(ls, pairs[k][1]), pairs[k][2], severity, category) >>
          ELSE <<>>)
         \o PatternLoop(pairs, k + 1, text, ls, severity, category)

\* the outer loop of analyze_code over self.rules.items()
RECURSIVE RuleLoop(_, _, _, _)
RuleLoop(r, n, text, ls) ==
    IF n > Len(r) THEN <<>>
    ELSE LET category == r[n][1]
             details  == r[n][2]
             severity == Get(details, "severity", "suggestion")
         IN  (IF "patterns" \in DOMAIN details
              THEN PatternLoop(Get(details, "patterns", <<>>), 1, text, ls, severity, category)
              ELSE <<>>)
             \o RuleLoop(r, n + 1, text, ls)

\* the loop of _detect_scaling_issues over scale_sensitive.items()
RECURSIVE ScalingLoop(_, _, _, _, _)
ScalingLoop(algs, k, scalers, text, ls) ==
    IF k > Len(algs) THEN <<>>
    ELSE (IF /\ Search(WholeWord(algs[k][1]), text, FALSE)
             /\ ~ \E s \in 1..Len(scalers) : Contains(text, scalers[s])
          THEN << Issue(FindLineForPattern(ls, WholeWord(algs[k][1])),
                        ScalingMessage(algs[k][2]), "warning", "scaling") >>
          ELSE <<>>)
         \o ScalingLoop(algs, k + 1, scalers, text, ls)

\* Variant: the scalers read under a key the rule does not have.
DetectScalingIssuesNoScalers(r, text, ls) ==
    LET rule_info == Details(r, "feature_scaling")
    IN  ScalingLoop(Get(rule_info, "scale_sensitive_algorithms", <<>>), 1,
                    Get(rule_info, "scaler", <<>>), text, ls)

\* _detect_scaling_issues
DetectScalingIssues(r, text, ls) ==
    LET rule_info == Details(r, "feature_scaling")
    IN  ScalingLoop(Get(rule_info, "scale_sensitive_algorithms", <<>>), 1,
                    Get(rule_info, "scalers", <<>>), text, ls)

\* Variant: the category made part of the identifier.
IdentifierWithCategory(issue) == <<issue.issue, issue.line, issue.category>>

\* the identifier of an issue inside _deduplicate_issues
Identifier(issue) == <<issue.issue, issue.line>>

\* _deduplicate_issues
RECURSIVE DedupLoop(_, _, _)
DedupLoop(list, k, seen) ==
    IF k > Len(list) THEN <<>>
    ELSE IF Identifier(list[k]) \in seen
         THEN DedupLoop(list, k + 1, seen)
         ELSE <<list[k]>> \o DedupLoop(list, k + 1, seen \cup {Identifier(list[k])})

\* Variant: the last occurrence of an identifier kept instead of the first.
RECURSIVE KeepLastLoop(_, _)
KeepLastLoop(list, k) ==
    IF k > Len(list) THEN <<>>
    ELSE IF \E j \in (k + 1)..Len(list) : Identifier(list[j]) = Identifier(list[k])
         THEN KeepLastLoop(list, k + 1)
         ELSE <<list[k]>> \o KeepLastLoop(list, k + 1)

DeduplicateKeepLast(list) == KeepLastLoop(list, 1)

DeduplicateIssues(list) == DedupLoop(list, 1, {})

-----------------------------------------------------------------------------
(* analyze_code, step by step *)

\* Variant: the syntax issue kept as one more issue, without the early return.
CheckSyntaxNoReturn(w) ==
    /\ pc[w] = "syntax"
    /\ syntax_issues' = [syntax_issues EXCEPT ![w] = AstAnalysis(code[w])]
    /\ lines' = [lines EXCEPT ![w] = SplitLines(code[w])]
    /\ issues' = [issues EXCEPT ![w] = AstAnalysis(code[w])]
    /\ pc' = [pc EXCEPT ![w] = "patterns"]
    /\ UNCHANGED <<rules, code, result, returned>>

\* lines 21-25: the syntax check and its early return
CheckSyntax(w) ==
    /\ pc[w] = "syntax"
    /\ LET found == AstAnalysis(code[w])
       IN  /\ syntax_issues' = [syntax_issues EXCEPT ![w] = found]
           /\ IF found # <<>>
              THEN /\ result' = [result EXCEPT ![w] = found]
                   /\ pc' = [pc EXCEPT ![w] = "done"]
                   /\ UNCHANGED <<lines, issues>>
              ELSE /\ lines' = [lines EXCEPT ![w] = SplitLines(code[w])]
                   /\ issues' = [issues EXCEPT ![w] = <<>>]
                   /\ pc' = [pc EXCEPT ![w] = "patterns"]
                   /\ UNCHANGED result
    /\ UNCHANGED <<rules, code, returned>>

\* Variant: the issue list kept on the reviewer, so an append lands in the
\* list of every invocation in flight.
CheckPatternsShared(w) ==
    /\ pc[w] = "patterns"
    /\ issues' = [v \in Workers |->
                     IF v = w \/ pc[v] \in {"scaling", "dedup"}
                     THEN issues[v] \o RuleLoop(rules, 1, code[w], lines[w])
                     ELSE issues[v]]
    /\ pc' = [pc EXCEPT ![w] = "scaling"]
    /\ UNCHANGED <<rules, code, syntax_issues, lines, result, returned>>

\* lines 33-44: the generic pattern-based checks
CheckPatterns(w) ==
    /\ pc[w] = "patterns"
    /\ issues' = [issues EXCEPT ![w] = issues[w] \o RuleLoop(rules, 1, code[w], lines[w])]
    /\ pc' = [pc EXCEPT ![w] = "scaling"]
    /\ UNCHANGED <<rules, code, syntax_issues, lines, result, returned>>

\* rule_info.pop('scalers', []) on the shared registry
WithoutScalers(r) ==
    [n \in 1..Len(r) |->
        IF r[n][1] = "feature_scaling"
        THEN <<r[n][1], [key \in (DOMAIN r[n][2]) \ {"scalers"} |-> r[n][2][key]]>>
        ELSE r[n]]

\* Variant: the scalers popped from the rule instead of read.
CheckScalingPop(w) ==
    /\ pc[w] = "scaling"
    /\ issues' = [issues EXCEPT ![w] =
                     IF HasCategory(rules, "feature_scaling")
                     THEN issues[w] \o DetectScalingIssues(rules, code[w], lines[w])
                     ELSE issues[w]]
    /\ rules' = WithoutScalers(rules)
    /\ pc' = [pc EXCEPT ![w] = "dedup"]
    /\ UNCHANGED <<code, syntax_issues, lines, result, returned>>

\* lines 47-48: the scaling check
CheckScaling(w) ==
    /\ pc[w] = "scaling"
    /\ issues' = [issues EXCEPT ![w] =
                     IF HasCategory(rules, "feature_scaling")
                     THEN issues[w] \o DetectScalingIssues(rules, code[w], lines[w])
                     ELSE issues[w]]
    /\ pc' = [pc EXCEPT ![w] = "dedup"]
    /\ UNCHANGED <<rules, code, syntax_issues, lines, result, returned>>

\* line 50: deduplicate and return
Deduplicate(w) ==
    /\ pc[w] = "dedup"
    /\ result' = [result EXCEPT ![w] = DeduplicateIssues(issues[w])]
    /\ pc' = [pc EXCEPT ![w] = "done"]
    /\ UNCHANGED <<rules, code, syntax_issues, lines, issues, returned>>

Step(w) == CheckSyntax(w) \/ CheckPatterns(w) \/ CheckScaling(w) \/ Deduplicate(w)

Idle == [w \in Workers |-> <<>>]

\* One call of analyze_code on a reviewer whose registry is loaded.
Init ==
    /\ rules \in Registries
    /\ code \in {[w \in Workers |-> IF w = 1 THEN c ELSE <<>>] : c \in Codes}
    /\ pc = [w \in Workers |-> IF w = 1 THEN "syntax" ELSE "idle"]
    /\ syntax_issues = Idle
    /\ lines = Idle
    /\ issues = Idle
    /\ result = Idle
    /\ returned = {}

Next == \E w \in Workers : Step(w)

Spec == Init /\ [][Next]_vars

-----------------------------------------------------------------------------
(* Several callers sharing one reviewer (one registry) *)

\* Source texts the concurrent callers submit: "K", "K x" (unparseable),
\* "K", newline, "x".
SampleCodes == { <<"K">>, <<"K", SP, "x">>, <<"K", NL, "x">> }

ConcRegistries == {RegFull, RegScalingFirst}

\* a caller enters analyze_code(code)
Call(w, c) ==
    /\ pc[w] = "idle"
    /\ code' = [code EXCEPT ![w] = c]
    /\ pc' = [pc EXCEPT ![w] = "syntax"]
    /\ UNCHANGED <<rules, syntax_issues, lines, issues, result, returned>>

\* analyze_code returns to its caller; the locals die with the frame
Return(w) ==
    /\ pc[w] = "done"
    /\ returned' = returned \cup {<<code[w], result[w]>>}
    /\ pc' = [pc EXCEPT ![w] = "idle"]
    /\ code' = [code EXCEPT ![w] = <<>>]
    /\ syntax_issues' = [syntax_issues EXCEPT ![w] = <<>>]
    /\ lines' = [lines EXCEPT ![w] = <<>>]
    /\ issues' = [issues EXCEPT ![w] = <<>>]
    /\ result' = [result EXCEPT ![w] = <<>>]
    /\ UNCHANGED rules

InitConc ==
    /\ rules \in ConcRegistries
    /\ pc = [w \in Workers |-> "idle"]
    /\ code = Idle
    /\ syntax_issues = Idle
    /\ lines = Idle
    /\ issues = Idle
    /\ result = Idle
    /\ returned = {}

NextConc ==
    \E w \in Workers :
        \/ \E c \in SampleCodes : Call(w, c)
        \/ Step(w)
        \/ Return(w)

SpecConc == InitConc /\ [][NextConc]_vars

-----------------------------------------------------------------------------
(* Properties *)

\* Severities of the critical tier: the syntax issue carries 'error', which the
\* caller treats as 'critical'.
CriticalTier == {"error", "critical"}

\* The scaling rule's algorithms and scalers, empty when the registry has none.
ScalingAlgorithms(r) ==
    IF HasCategory(r, "feature_scaling")
    THEN Get(Details(r, "feature_scaling"), "scale_sensitive_algorithms", <<>>)
    ELSE <<>>

ScalerNames(r) ==
    IF HasCategory(r, "feature_scaling")
    THEN Get(Details(r, "feature_scaling"), "scalers", <<>>)
    ELSE <<>>

ScalerPresent(r, text) == \E s \in 1..Len(ScalerNames(r)) : Contains(text, ScalerNames(r)[s])

\* A scaling issue about the algorithm whose display name is full_name.
IsScalingIssueFor(issue, full_name) ==
    issue.category = "scaling" /\ issue.issue = ScalingMessage(full_name)

\* Positions where word occurs in text, and whether a word character adjoins it.
Occurrences(text, word) ==
    {p \in 1..(Len(text) - Len(word) + 1) : SubSeq(text, p, p + Len(word) - 1) = word}

Adjoined(text, word, p) ==
    \/ p > 1 /\ IsWordChar(text[p - 1])
    \/ p + Len(word) <= Len(text) /\ IsWordChar(text[p + Len(word)])

OnlyInsideLongerWords(text, word) ==
    /\ Occurrences(text, word) # {}
    /\ \A p \in Occurrences(text, word) : Adjoined(text, word, p)

\* The (category index, pattern index) pairs of a registry, in iteration order.
PairIndex(r) ==
    UNION {{<<n, k>> : k \in 1..Len(r[n][2].patterns)} :
              n \in {m \in 1..Len(r) : "patterns" \in DOMAIN r[m][2]}}

PairBefore(a, b) == a[1] < b[1] \/ (a[1] = b[1] /\ a[2] < b[2])

PairPattern(r, ix) == r[ix[1]][2].patterns[ix[2]][1]

PairMessage(r, ix) == r[ix[1]][2].patterns[ix[2]][2]

MatchingPairs(r, text) == {ix \in PairIndex(r) : Search(PairPattern(r, ix), text, TRUE)}

\* The smallest 1-based index of a line matching the pattern, 1 when none does.
SmallestMatchingLine(text, pattern, ignorecase) ==
    LET ls   == SplitLines(text)
        hits == {n \in 1..Len(ls) : Search(pattern, ls[n], ignorecase)}
    IN  IF hits = {} THEN 1 ELSE CHOOSE n \in hits : \A m \in hits : n <= m

SameKey(a, b) == a.issue = b.issue /\ a.line = b.line

\* Indices of the first occurrence of each (message, line) key.
FirstOccurrences(list) ==
    {i \in 1..Len(list) : \A j \in 1..(i - 1) : ~SameKey(list[j], list[i])}

\* C1: on a text that fails to parse, analyze_code returns exactly one issue, of
\* category "syntax" and of the critical tier, and neither the rule loop nor the
\* scaling check is reached (no issue is ever accumulated).
C1_SyntaxShortCircuit ==
    \A w \in Workers :
        (pc[w] # "idle" /\ ~Parses(code[w])) =>
            /\ pc[w] \in {"syntax", "done"}
            /\ issues[w] = <<>>
            /\ pc[w] = "done" =>
                  /\ Len(result[w]) = 1
                  /\ result[w][1].category = "syntax"
                  /\ result[w][1].severity \in CriticalTier
                  /\ result[w] = syntax_issues[w]

\* "K x" is not Python, and every pattern of the full registry matches it.
C1_Witness ==
    /\ pc[1] = "done"
    /\ rules = RegFull
    /\ code[1] = <<"K", SP, "x">>
    /\ MatchingPairs(rules, code[1]) = PairIndex(rules)
    /\ Search(WholeWord(<<"K">>), code[1], FALSE)
    /\ Len(result[1]) = 1

\* C2: on a text that parses, no two distinct elements of the returned list have
\* both the same message and the same line, whatever their category or severity.
C2_NoDuplicateKey ==
    \A w \in Workers :
        (pc[w] = "done" /\ Parses(code[w])) =>
            \A i, j \in 1..Len(result[w]) :
                i # j => ~SameKey(result[w][i], result[w][j])

\* Two rules of different category flagged the same message on the same line.
C2_Witness ==
    /\ pc[1] = "done"
    /\ Parses(code[1])
    /\ Len(result[1]) >= 2
    /\ \E i, j \in 1..Len(issues[1]) :
          /\ i < j
          /\ SameKey(issues[1][i], issues[1][j])
          /\ issues[1][i].category # issues[1][j].category

\* C3: on a text that parses, when a scale-sensitive algorithm identifier appears
\* and one of the rule's scaler substrings appears anywhere in the text, the
\* result holds no "scaling" issue for that algorithm.
C3_ScalerSuppression ==
    \A w \in Workers :
        (pc[w] = "done" /\ Parses(code[w])) =>
            \A k \in 1..Len(ScalingAlgorithms(rules)) :
                (/\ Contains(code[w], ScalingAlgorithms(rules)[k][1])
                 /\ ScalerPresent(rules, code[w])) =>
                    \A i \in 1..Len(result[w]) :
                        ~IsScalingIssueFor(result[w][i], ScalingAlgorithms(rules)[k][2])

\* The algorithm stands as a whole word and a scaler is named on another line.
C3_Witness ==
    /\ pc[1] = "done"
    /\ Parses(code[1])
    /\ \E k \in 1..Len(ScalingAlgorithms(rules)) :
          Search(WholeWord(ScalingAlgorithms(rules)[k][1]), code[1], FALSE)
    /\ ScalerPresent(rules, code[1])
    /\ Len(lines[1]) >= 2

\* C4: when an algorithm identifier occurs in the text only inside longer
\* identifiers (a word character adjoins every occurrence), the scaling rule
\* emits no issue for it, even when no scaler substring is present.
C4_WholeWordBoundary ==
    \A w \in Workers :
        (pc[w] \in {"dedup", "done"} /\ Parses(code[w])) =>
            \A k \in 1..Len(ScalingAlgorithms(rules)) :
                OnlyInsideLongerWords(code[w], ScalingAlgorithms(rules)[k][1]) =>
                    /\ \A i \in 1..Len(issues[w]) :
                          ~IsScalingIssueFor(issues[w][i], ScalingAlgorithms(rules)[k][2])
                    /\ pc[w] = "done" =>
                          \A i \in 1..Len(result[w]) :
                              ~IsScalingIssueFor(result[w][i], ScalingAlgorithms(rules)[k][2])

\* The identifier occurs, only inside a longer word, and no scaler is present.
C4_Witness ==
    /\ pc[1] = "done"
    /\ Parses(code[1])
    /\ ~ScalerPresent(rules, code[1])
    /\ \E k \in 1..Len(ScalingAlgorithms(rules)) :
          OnlyInsideLongerWords(code[1], ScalingAlgorithms(rules)[k][1])

\* C5 as stated: on the empty string, syntax validation returns no issue and
\* analyze_code returns the empty list, for every registry.
C5_EmptyInputAnyRegistry ==
    \A w \in Workers :
        (pc[w] = "done" /\ code[w] = <<>>) =>
            syntax_issues[w] = <<>> /\ result[w] = <<>>

\* C5 amended: on the empty string, syntax validation returns no issue, and
\* analyze_code returns the empty list for every registry none of whose patterns
\* matches the empty string.
C5_EmptyInput ==
    \A w \in Workers :
        (pc[w] = "done" /\ code[w] = <<>>) =>
            /\ syntax_issues[w] = <<>>
            /\ MatchingPairs(rules, <<>>) = {} => result[w] = <<>>

\* The empty string analysed against a registry that has patterns.
C5_Witness ==
    /\ pc[1] = "done"
    /\ code[1] = <<>>
    /\ PairIndex(rules) # {}
    /\ MatchingPairs(rules, <<>>) = {}
    /\ HasCategory(rules, "feature_scaling")
    /\ result[1] = <<>>

\* C6: two invocations of analyze_code on the same text return identical lists,
\* whatever other invocations run before, between or beside them.
C6_Determinism ==
    /\ \A p, q \in returned : p[1] = q[1] => p[2] = q[2]
    /\ \A w \in Workers :
          pc[w] = "done" =>
              /\ \A p \in returned : p[1] = code[w] => p[2] = result[w]
              /\ \A v \in Workers :
                    (pc[v] = "done" /\ code[v] = code[w]) => result[v] = result[w]

\* A second invocation on a text already answered has finished, while another
\* invocation on a different text is in the middle of its checks.
C6_Witness ==
    \E w, v \in Workers :
        /\ pc[w] = "done"
        /\ result[w] # <<>>
        /\ <<code[w], result[w]>> \in returned
        /\ pc[v] \in {"scaling", "dedup"}
        /\ code[v] # code[w]
        /\ issues[v] # <<>>

\* C7: no step of any invocation changes the registry, and a step of one
\* invocation leaves the locals of every other invocation (its accumulated issue
\* list among them) unchanged.
C7_RegistryUnchanged ==
    [][/\ rules' = rules
       /\ \A w \in Workers :
             pc'[w] = pc[w] =>
                 /\ issues'[w] = issues[w]
                 /\ lines'[w] = lines[w]
                 /\ syntax_issues'[w] = syntax_issues[w]
                 /\ result'[w] = result[w]]_vars

\* One invocation has finished on unparseable input while another holds its
\* accumulated issues before deduplication, and results were returned before.
C7_Witness ==
    \E w, v \in Workers :
        /\ pc[w] = "done"
        /\ ~Parses(code[w])
        /\ pc[v] = "dedup"
        /\ Len(issues[v]) >= 2
        /\ returned # {}
        /\ HasCategory(rules, "feature_scaling")

\* C8: after the pattern loop, the accumulated list holds exactly one issue per
\* (pattern, message) pair that matches the full text case-insensitively, in
\* registry order, with that message, the rule's category and severity
\* (default "suggestion") and the smallest matching line, or 1 when no single
\* line matches; a pair that does not match adds nothing.
C8_PatternIssues ==
    \A w \in Workers :
        pc[w] = "scaling" =>
            /\ Len(issues[w]) = Cardinality(MatchingPairs(rules, code[w]))
            /\ \A ix \in MatchingPairs(rules, code[w]) :
                  LET rank == 1 + Cardinality({jx \in MatchingPairs(rules, code[w]) :
                                                  PairBefore(jx, ix)})
                      details == rules[ix[1]][2]
                  IN  /\ rank <= Len(issues[w])
                      /\ issues[w][rank].issue = PairMessage(rules, ix)
                      /\ issues[w][rank].category = rules[ix[1]][1]
                      /\ issues[w][rank].severity =
                            (IF "severity" \in DOMAIN details
                             THEN details.severity ELSE "suggestion")
                      /\ issues[w][rank].line =
                            SmallestMatchingLine(code[w], PairPattern(rules, ix), TRUE)

\* One pattern matches only across the line break, and another first matches
\* on the second line.
C8_Witness ==
    /\ pc[1] = "scaling"
    /\ \E ix \in MatchingPairs(rules, code[1]) :
          \A n \in 1..Len(lines[1]) : ~Search(PairPattern(rules, ix), lines[1][n], TRUE)
    /\ \E i \in 1..Len(issues[1]) : issues[1][i].line = 2

\* C9 as stated: every scaling issue has severity "warning", category "scaling",
\* the message of its algorithm's display name, and the first line that holds
\* the whole-word match of the identifier that triggered it (1 when none).
C9_ScalingIssueLocated ==
    \A w \in Workers :
        pc[w] \in {"dedup", "done"} =>
            \A i \in 1..Len(issues[w]) :
                issues[w][i].category = "scaling" =>
                    \E k \in 1..Len(ScalingAlgorithms(rules)) :
                        /\ issues[w][i].issue = ScalingMessage(ScalingAlgorithms(rules)[k][2])
                        /\ issues[w][i].severity = "warning"
                        /\ issues[w][i].line =
                              SmallestMatchingLine(
                                  code[w], WholeWord(ScalingAlgorithms(rules)[k][1]), FALSE)

\* C10: the returned list is the accumulated list restricted to the first
\* occurrence of each (message, line) key, in the same relative order and with
\* that occurrence's category and severity; the accumulated list holds the
\* pattern issues first and the scaling issues after them, in algorithm order.
C10_DedupFirstSeen ==
    \A w \in Workers :
        (pc[w] = "done" /\ Parses(code[w])) =>
            LET first == FirstOccurrences(issues[w])
                algs  == ScalingAlgorithms(rules)
                npat  == Cardinality(MatchingPairs(rules, code[w]))
            IN  /\ Len(result[w]) = Cardinality(first)
                /\ \A i \in first :
                      result[w][Cardinality({j \in first : j <= i})] = issues[w][i]
                /\ \A i \in 1..Len(issues[w]) :
                      \E j \in 1..Len(result[w]) : SameKey(result[w][j], issues[w][i])
                /\ \A i \in (npat + 1)..Len(issues[w]) : issues[w][i].category = "scaling"
                /\ \A i, j \in (npat + 1)..Len(issues[w]) :
                      i < j =>
                          \E a, b \in 1..Len(algs) :
                              /\ a < b
                              /\ issues[w][i].issue = ScalingMessage(algs[a][2])
                              /\ issues[w][j].issue = ScalingMessage(algs[b][2])

\* A later issue repeats the key of an earlier one under another category, and
\* an issue accumulated after the dropped one is kept behind the first.
C10_Witness ==
    /\ pc[1] = "done"
    /\ Parses(code[1])
    /\ \E i, j, k \in 1..Len(issues[1]) :
          /\ i < j /\ j < k
          /\ SameKey(issues[1][i], issues[1][j])
          /\ issues[1][i].category # issues[1][j].category
          /\ ~SameKey(issues[1][i], issues[1][k])
          /\ k \in FirstOccurrences(issues[1])
    /\ Len(result[1]) < Len(issues[1])

====
